---- MODULE Spec2Model ----
(***************************************************************************)
(* DraGoNNs: a feed-forward neural network (package ffnn) with             *)
(* backpropagation training, its network builder, and the calls made on a  *)
(* built network.                                                          *)
(*                                                                         *)
(* The source tree holds three revisions of package ffnn side by side:     *)
(*   RevPrealloc  ffnn/factory.go + ffnn/layers.go + ffnn/functions.go     *)
(*                lines 1-300: the builder starts with two empty layer     *)
(*                specs and Build allocates no training buffers;           *)
(*   RevAugmented unnamed/part_002 + ffnn/layers.go + ffnn/functions.go    *)
(*                lines 1-300: the bias is the last column of the weights, *)
(*                the backward loop increments its index;                  *)
(*   RevSplit     cmd/mnist_nn_storage.go lines 25-258 + ffnn/functions.go *)
(*                lines 302-467 + unnamed/part_003 + unnamed/part_007:     *)
(*                weights w and bias b are separate, adjust() decrements.  *)
(* The revision is fixed when the program is built (variable rev).         *)
(*                                                                         *)
(* float64 values are fixed-point integers: ONE stands for 1.0 and a       *)
(* product is rounded toward zero to a multiple of 1/ONE.                  *)
(***************************************************************************)
EXTENDS Integers, Sequences, FiniteSets, TLC

\* ---------------------------------------------------------------- bounds
\* Largest input / output size of a layer handed to New and AddLayer.
MaxSize == 2
\* Largest number of AddLayer calls on one builder.
MaxLayers == 2
\* Number of Forward / Test / Train calls made on one network.
MaxCalls == 1
\* Number of distinct seeds of the random source (rand.Seed in main).
MaxSeed == 1
\* Number of examples of the data set.
NumExamples == 2
\* Number of learning rates tried: 1/2, 1/4, ...
NumRates == 2
\* Binary digits after the point of the fixed-point numbers.
FracBits == 8
\* Largest number of epochs TrainMNISTNetwork is asked for.
MaxEpochs == 2
\* Passes of one TrainMNISTNetwork call that meet a file that does not open
\* or a record that does not parse.
MaxFaults == 1

\* for epochs := 0; epochs < 5; epochs++ of the revision without the parameter.
OldEpochs == 5

ONE == 2 ^ FracBits

RevPrealloc == "RevPrealloc"
RevAugmented == "RevAugmented"
RevSplit == "RevSplit"
Revisions == {RevPrealloc, RevAugmented, RevSplit}

\* ------------------------------------------------------------ fixed point
\* Rounding toward zero, the same for x and -x as in floating point.
Quot(n, d) == IF n >= 0 THEN n \div d ELSE -((-n) \div d)

RECURSIVE SumSeq(_)
SumSeq(s) == IF Len(s) = 0 THEN 0 ELSE Head(s) + SumSeq(Tail(s))

NaN == "NaN"

\* ------------------------------------------------ dense matrices (gonum)
\* A *mat.Dense: a nil pointer, or rows x cols values; at[r][c] is 1-based.
NilDense == [nil |-> TRUE, rows |-> 0, cols |-> 0, at |-> << >>]

\* mat.NewDense(r, c, nil): a zeroed matrix.
NewDense(r, c) ==
    [nil |-> FALSE, rows |-> r, cols |-> c,
     at |-> [i \in 1..r |-> [j \in 1..c |-> 0]]]

SameDims(a, b) == a.rows = b.rows /\ a.cols = b.cols

\* Dense.reuseAs: a receiver that holds a matrix must have the result's size.
ReuseOk(recv, r, c) == recv.rows = r /\ recv.cols = c

\* Dense.T(): the transposed view.
T(a) ==
    [nil |-> a.nil, rows |-> a.cols, cols |-> a.rows,
     at |-> [i \in 1..a.cols |-> [j \in 1..a.rows |-> a.at[j][i]]]]

\* "" when the element-wise call result.Op(a, b) runs, else Go's panic.
ElemPanic(a, b, result) ==
    IF result.nil \/ a.nil \/ b.nil THEN "nil pointer dereference"
    ELSE IF ~SameDims(a, b) \/ ~ReuseOk(result, a.rows, a.cols) THEN "mat: dimension mismatch"
    ELSE ""

\* "" when result.Product(a, b) runs, else Go's panic.
MulPanic(a, b, result) ==
    IF result.nil \/ a.nil \/ b.nil THEN "nil pointer dereference"
    ELSE IF a.cols # b.rows \/ ~ReuseOk(result, a.rows, b.cols) THEN "mat: dimension mismatch"
    ELSE ""

\* "" when result.Scale(f, a) or result.Apply(fn, a) runs, else Go's panic.
UnaryPanic(a, result) ==
    IF result.nil \/ a.nil THEN "nil pointer dereference"
    ELSE IF ~ReuseOk(result, a.rows, a.cols) THEN "mat: dimension mismatch"
    ELSE ""

\* ops.H: result.MulElem(a, b), the element-wise product.
H(a, b) ==
    [nil |-> FALSE, rows |-> a.rows, cols |-> a.cols,
     at |-> [i \in 1..a.rows |-> [j \in 1..a.cols |-> Quot(a.at[i][j] * b.at[i][j], ONE)]]]

\* ops.Mul: result.Product(a, b), the matrix product.
Mul(a, b) ==
    [nil |-> FALSE, rows |-> a.rows, cols |-> b.cols,
     at |-> [i \in 1..a.rows |-> [j \in 1..b.cols |->
              Quot(SumSeq([k \in 1..a.cols |-> a.at[i][k] * b.at[k][j]]), ONE)]]]

\* ops.Add: result.Add(a, b).
Add(a, b) ==
    [nil |-> FALSE, rows |-> a.rows, cols |-> a.cols,
     at |-> [i \in 1..a.rows |-> [j \in 1..a.cols |-> a.at[i][j] + b.at[i][j]]]]

\* ops.Sub: result.Sub(a, b) = a - b.
Sub(a, b) ==
    [nil |-> FALSE, rows |-> a.rows, cols |-> a.cols,
     at |-> [i \in 1..a.rows |-> [j \in 1..a.cols |-> a.at[i][j] - b.at[i][j]]]]

\* ops.Scale: result.Scale(f, a).
Scale(f, a) ==
    [nil |-> FALSE, rows |-> a.rows, cols |-> a.cols,
     at |-> [i \in 1..a.rows |-> [j \in 1..a.cols |-> Quot(f * a.at[i][j], ONE)]]]

\* matrices.Fill(rows, columns, value).
Fill(r, c, value) ==
    [nil |-> FALSE, rows |-> r, cols |-> c,
     at |-> [i \in 1..r |-> [j \in 1..c |-> value]]]

\* mat.Sum: the sum of all elements.
MatSum(a) == SumSeq([i \in 1..a.rows |-> SumSeq(a.at[i])])

\* ----------------------------------------------------- random source
\* 1.0/math.Sqrt(float64(inputSize)), for inputSize >= 1.
NoiseCap(inputSize) ==
    CHOOSE c \in 0..ONE :
      /\ c * c * inputSize <= ONE * ONE
      /\ (c + 1) * (c + 1) * inputSize > ONE * ONE

\* The k-th value of the random source scaled into [-cap, cap]. With
\* inputSize = 0 the cap is +Inf and every draw is Inf - Inf = NaN.
Uniform(k, inputSize) ==
    IF inputSize < 1 THEN NaN
    ELSE ((k * 37 + 11) % (2 * NoiseCap(inputSize) + 1)) - NoiseCap(inputSize)

\* matrices.Noise(rows, columns, 1/sqrt(inputSize)), drawing from source
\* state s on, one draw per element in row-major order.
Noise(r, c, inputSize, s) ==
    [nil |-> FALSE, rows |-> r, cols |-> c,
     at |-> [i \in 1..r |-> [j \in 1..c |->
              Uniform(s + (i - 1) * c + (j - 1), inputSize)]]]

\* -------------------------------------------- activators and error metrics
\* A strategy is stateless: it is its type name; "nil" is the nil interface.
NilStrategy == "nil"

\* sigmoid(x) = 1/(1+exp(-x)), to the nearest of its values at -2..2.
sigmoid(x) ==
    IF x < -((3 * ONE) \div 2) THEN ONE \div 8
    ELSE IF x < -(ONE \div 2) THEN ONE \div 4
    ELSE IF x <= ONE \div 2 THEN ONE \div 2
    ELSE IF x <= (3 * ONE) \div 2 THEN (3 * ONE) \div 4
    ELSE (7 * ONE) \div 8

\* result.Apply(sigmoid, a).
Apply(a) ==
    [nil |-> FALSE, rows |-> a.rows, cols |-> a.cols,
     at |-> [i \in 1..a.rows |-> [j \in 1..a.cols |-> sigmoid(a.at[i][j])]]]

\* Activator.Base(z, a): "" or the panic; the value written into a.
ActBasePanic(f, z, a) ==
    IF f = NilStrategy THEN "nil pointer dereference" ELSE UnaryPanic(z, a)

ActBase(f, z) == Apply(z)

\* Sigmoid.Derivative(z, da_dz): base = Base(z, new rows x cols matrix of
\* da_dz's size); da_dz = (ones - base) (*) base.
ActDerivativePanic(f, z, da_dz) ==
    IF f = NilStrategy \/ da_dz.nil THEN "nil pointer dereference"
    ELSE UnaryPanic(z, NewDense(da_dz.rows, da_dz.cols))

ActDerivative(f, z) ==
    H(Sub(Fill(z.rows, z.cols, ONE), ActBase(f, z)), ActBase(f, z))

\* HalfSquaredError.Gradient(a, t, dc_da) in package ffnn: dc_da = t - a.
GradientPanic(c, a, t, dc_da) ==
    IF c = NilStrategy THEN "nil pointer dereference" ELSE ElemPanic(t, a, dc_da)

Gradient(c, a, t) == Sub(t, a)

\* HalfSquaredError.Base(a, t): half the sum of the squared gradient, the
\* gradient taken into a new matrix of t's size.
CostPanic(c, a, t) ==
    IF c = NilStrategy \/ t.nil THEN "nil pointer dereference"
    ELSE GradientPanic(c, a, t, NewDense(t.rows, t.cols))

Cost(c, a, t) == Quot(MatSum(H(Gradient(c, a, t), Gradient(c, a, t))), 2)

\* A lookup that gives nil for a name that is not registered.
GetActivatorStrict(registry, name) ==
    IF name \in DOMAIN registry THEN registry[name] ELSE NilStrategy

\* GetActivator / GetErrorMetric: the registered strategy, else "_default".
GetActivator(registry, name) ==
    IF name \in DOMAIN registry THEN registry[name] ELSE registry["_default"]

GetErrorMetric(registry, name) ==
    IF name \in DOMAIN registry THEN registry[name] ELSE registry["_default"]

\* ------------------------------------------------------------- layers
\* An FFLayer. RevPrealloc, RevAugmented (ffnn/layers.go): w has
\* inputSize+1 columns, the last one the bias, i has inputSize+1 rows, the
\* last one 1.0, and there is no b. RevSplit: w is outputSize x inputSize,
\* b is outputSize x 1, i is inputSize x 1.
Augmented(r) == r \in {RevPrealloc, RevAugmented}

\* makeFFLayer: inputs, zeroed but for the trailing 1.
BiasedInputs(inputSize) ==
    [nil |-> FALSE, rows |-> inputSize + 1, cols |-> 1,
     at |-> [i \in 1..(inputSize + 1) |-> [j \in 1..1 |-> IF i = inputSize + 1 THEN ONE ELSE 0]]]

\* newFFLayer(inputSize, outputSize, activator) of ffnn/layers.go.
newFFLayerAugmented(inputSize, outputSize, activator, s) ==
    [inputSize |-> inputSize, outputSize |-> outputSize,
     w |-> Noise(outputSize, inputSize + 1, inputSize, s),
     b |-> NilDense,
     f |-> activator,
     i |-> BiasedInputs(inputSize),
     z |-> NewDense(outputSize, 1),
     a |-> NewDense(outputSize, 1)]

\* newFFLayer(inputSize, outputSize, activator) with separate w and b.
newFFLayerSplit(inputSize, outputSize, activator, s) ==
    [inputSize |-> inputSize, outputSize |-> outputSize,
     w |-> Noise(outputSize, inputSize, inputSize, s),
     b |-> Noise(outputSize, 1, inputSize, s + outputSize * inputSize),
     f |-> activator,
     i |-> NewDense(inputSize, 1),
     z |-> NewDense(outputSize, 1),
     a |-> NewDense(outputSize, 1)]

newFFLayer(r, inputSize, outputSize, activator, s) ==
    IF Augmented(r) THEN newFFLayerAugmented(inputSize, outputSize, activator, s)
    ELSE newFFLayerSplit(inputSize, outputSize, activator, s)

\* The number of draws newFFLayer takes from the random source.
Draws(r, inputSize, outputSize) == outputSize * (inputSize + 1)

\* A faulty FFLayer.Forward that never copies its argument into i.
CopyInputsNone(layer, in) == layer.i

\* The loop of FFLayer.Forward: inputs.Set(index, 0, in.At(index, 0)) for
\* index < inputSize; rows of in that do not exist stop the loop (a panic).
CopyInputs(layer, in) ==
    [layer.i EXCEPT !.at = [r \in 1..layer.i.rows |->
        IF r <= layer.inputSize /\ r <= in.rows /\ in.cols >= 1
        THEN [j \in 1..1 |-> in.at[r][1]] ELSE layer.i.at[r]]]

CopyPanic(layer, in) ==
    IF in.nil THEN "nil pointer dereference"
    ELSE IF in.rows < layer.inputSize \/ in.cols < 1 THEN "mat: index out of range"
    ELSE ""

\* FFLayer.Forward of ffnn/layers.go: [err, layer]; err is "" or the panic,
\* layer holds what was written before it.
ForwardAugmented(layer, in) ==
    IF CopyPanic(layer, in) # ""
    THEN [err |-> CopyPanic(layer, in), layer |-> [layer EXCEPT !.i = CopyInputs(layer, in)]]
    ELSE IF MulPanic(layer.w, CopyInputs(layer, in), layer.z) # ""
    THEN [err |-> MulPanic(layer.w, CopyInputs(layer, in), layer.z),
          layer |-> [layer EXCEPT !.i = CopyInputs(layer, in)]]
    ELSE IF ActBasePanic(layer.f, Mul(layer.w, CopyInputs(layer, in)), layer.a) # ""
    THEN [err |-> ActBasePanic(layer.f, Mul(layer.w, CopyInputs(layer, in)), layer.a),
          layer |-> [layer EXCEPT !.i = CopyInputs(layer, in),
                                  !.z = Mul(layer.w, CopyInputs(layer, in))]]
    ELSE [err |-> "",
          layer |-> [layer EXCEPT !.i = CopyInputs(layer, in),
                                  !.z = Mul(layer.w, CopyInputs(layer, in)),
                                  !.a = ActBase(layer.f, Mul(layer.w, CopyInputs(layer, in)))]]

\* FFLayer.Forward with separate w and b: i = in, z = w*i + b, a = f(z).
ForwardSplit(layer, in) ==
    IF CopyPanic(layer, in) # ""
    THEN [err |-> CopyPanic(layer, in), layer |-> [layer EXCEPT !.i = CopyInputs(layer, in)]]
    ELSE IF MulPanic(layer.w, CopyInputs(layer, in), layer.z) # ""
    THEN [err |-> MulPanic(layer.w, CopyInputs(layer, in), layer.z),
          layer |-> [layer EXCEPT !.i = CopyInputs(layer, in)]]
    ELSE IF ElemPanic(layer.z, layer.b, layer.z) # ""
    THEN [err |-> ElemPanic(layer.z, layer.b, layer.z),
          layer |-> [layer EXCEPT !.i = CopyInputs(layer, in),
                                  !.z = Mul(layer.w, CopyInputs(layer, in))]]
    ELSE IF ActBasePanic(layer.f, layer.z, layer.a) # ""
    THEN [err |-> ActBasePanic(layer.f, layer.z, layer.a),
          layer |-> [layer EXCEPT !.i = CopyInputs(layer, in),
                                  !.z = Add(Mul(layer.w, CopyInputs(layer, in)), layer.b)]]
    ELSE [err |-> "",
          layer |-> [layer EXCEPT !.i = CopyInputs(layer, in),
                                  !.z = Add(Mul(layer.w, CopyInputs(layer, in)), layer.b),
                                  !.a = ActBase(layer.f, Add(Mul(layer.w, CopyInputs(layer, in)), layer.b))]]

\* A faulty FFLayer.Forward that keeps the weighted sum in the bias b.
LayerForwardIntoBias(r, layer, in) ==
    LET res == IF Augmented(r) THEN ForwardAugmented(layer, in) ELSE ForwardSplit(layer, in)
    IN  [err |-> res.err, layer |-> [res.layer EXCEPT !.b = res.layer.z]]

\* A layer forward that adds the new weighted sum to the one the scratch
\* holds.
LayerForwardAccumulate(r, layer, in) ==
    LET res == IF Augmented(r) THEN ForwardAugmented(layer, in) ELSE ForwardSplit(layer, in)
    IN  IF res.err # "" THEN res
        ELSE [err |-> "",
              layer |-> [res.layer EXCEPT !.z = Add(layer.z, res.layer.z),
                                          !.a = ActBase(layer.f, Add(layer.z, res.layer.z))]]

LayerForward(r, layer, in) ==
    IF Augmented(r) THEN ForwardAugmented(layer, in) ELSE ForwardSplit(layer, in)

\* The views the data model speaks of: weights (outputSize x inputSize),
\* bias (outputSize x 1) and cached input (inputSize x 1) of a layer.
Columns(m, n) ==
    [nil |-> FALSE, rows |-> m.rows, cols |-> n,
     at |-> [i \in 1..m.rows |-> [j \in 1..n |-> m.at[i][j]]]]

Column(m, n) ==
    [nil |-> FALSE, rows |-> m.rows, cols |-> 1,
     at |-> [i \in 1..m.rows |-> [j \in 1..1 |-> m.at[i][n]]]]

Rows(m, n) ==
    [nil |-> FALSE, rows |-> n, cols |-> m.cols,
     at |-> [i \in 1..n |-> m.at[i]]]

Weights(r, layer) == IF Augmented(r) THEN Columns(layer.w, layer.inputSize) ELSE layer.w

Bias(r, layer) == IF Augmented(r) THEN Column(layer.w, layer.inputSize + 1) ELSE layer.b

CachedInput(r, layer) == IF Augmented(r) THEN Rows(layer.i, layer.inputSize) ELSE layer.i

\* ----------------------------------------------------------- data set
LearningRates == {Quot(ONE, 2 ^ k) : k \in 1..NumRates}

\* makeInput: (x / 255.0 * 0.99) + 0.01 for each pixel x of the record; the
\* pixels of example e alternate between 0 and 255. Record 0 is the header
\* of the file: strconv.ParseFloat gives 0 for each of its fields.
Pixel(e, k) == IF e # 0 /\ (e + k) % 2 = 0 THEN 255 ELSE 0

makeInput(e, n) ==
    [nil |-> FALSE, rows |-> n, cols |-> 1,
     at |-> [i \in 1..n |-> [j \in 1..1 |->
              Quot(Pixel(e, i) * 99 * ONE, 255 * 100) + Quot(ONE, 100)]]]

\* makeTarget: 0.99 for the label's row, 0.01 for the others; strconv.Atoi
\* gives label 0 for the header.
makeTarget(e, m) ==
    [nil |-> FALSE, rows |-> m, cols |-> 1,
     at |-> [i \in 1..m |-> [j \in 1..1 |->
              IF i = (IF e = 0 THEN 0 ELSE (e - 1) % m) + 1
              THEN Quot(99 * ONE, 100) ELSE Quot(ONE, 100)]]]

\* ------------------------------------------------------------- state
VARIABLES
    rev,           \* the revision of package ffnn the program is built from
    seed,          \* state of the random source
    activators,    \* registry: name -> Activator
    errorMetrics,  \* registry: name -> ErrorMetric
    builder,       \* the *FFNetworkBuilder
    network,       \* the *FFNetwork
    call,          \* the running Forward / Test / TrainWithRate call, its locals
    ret,           \* what the last call returned
    panic,         \* "" or the panic that ended the program
    pre,           \* history: the network when the running call started
    events,        \* history: the error terms computed and layers fixed by the call
    addCalls,      \* history: the AddLayer calls made on the builder, nil activators resolved
    calls,         \* history: the calls started on the network
    budget,        \* the number of calls the program makes on the network
    reader,        \* TrainMNISTNetwork: its locals and the reads it made
    parked,        \* the call of the goroutine that is not running, its history
    files          \* the file system: file name -> envelope

vars == <<rev, seed, activators, errorMetrics, builder, network, call, ret,
          panic, pre, events, addCalls, calls, budget, reader, parked, files>>

\* TrainMNISTNetwork before it is called.
NoReader ==
    [pc |-> "idle", epochs |-> 0, epoch |-> 0, first |-> FALSE, pos |-> 0,
     err |-> "", trained |-> << >>, opens |-> 0, faults |-> 0]

NilBuilder ==
    [nil |-> TRUE, defaultLearningRate |-> 0, inputSize |-> 0,
     errorMetric |-> NilStrategy, layers |-> << >>]

NilNetwork ==
    [nil |-> TRUE, layers |-> << >>, defaultLearningRate |-> 0, c |-> NilStrategy,
     rDcDa |-> << >>, rDaDz |-> << >>, delta |-> << >>]

IdleCall ==
    [op |-> "idle", pc |-> "idle", index |-> 0, input |-> NilDense,
     expected |-> NilDense, rate |-> 0, cost |-> 0]

NoRet == [op |-> "none", output |-> 0, cost |-> 0]

\* What a goroutine that is switched out keeps: its call and its history.
\* raced tells whether a call has ever been switched out before it returned.
Parked(c, p, ev) == [call |-> c, pre |-> p, events |-> ev, raced |-> FALSE]

\* The directory the program runs in, empty.
NoFiles == [name \in {} |-> 0]

Init ==
    /\ rev \in Revisions
    /\ seed \in 0..(MaxSeed - 1)
    /\ activators = [n \in {"_default", "Sigmoid"} |-> "Sigmoid"]
    /\ errorMetrics = [n \in {"_default", "HalfSquaredError"} |-> "HalfSquaredError"]
    /\ builder = NilBuilder
    /\ network = NilNetwork
    /\ call = IdleCall
    /\ ret = NoRet
    /\ panic = ""
    /\ pre = NilNetwork
    /\ events = << >>
    /\ addCalls = << >>
    /\ calls = 0
    /\ budget = MaxCalls
    /\ reader = NoReader
    /\ parked = Parked(IdleCall, NilNetwork, << >>)
    /\ files = NoFiles

\* ------------------------------------------------------------- builder
\* New: the layer specs a new builder holds. ffnn/factory.go makes two
\* zero-valued specs, the later revisions none.
InitialSpecs(r) ==
    IF r = RevPrealloc
    THEN <<[outputSize |-> 0, activator |-> NilStrategy],
           [outputSize |-> 0, activator |-> NilStrategy]>>
    ELSE << >>

\* New(defaultLearningRate, inputSize, errorMetric): "" or its panic.
NewPanic(rate, inputSize) ==
    IF inputSize < 1 THEN "input size must be >= 1"
    ELSE IF rate <= 0 THEN "learning rate must be positive (and, preferably, small)"
    ELSE ""

New(rate, inputSize, metric) ==
    /\ panic = "" /\ builder.nil
    /\ IF NewPanic(rate, inputSize) # ""
       THEN /\ panic' = NewPanic(rate, inputSize)
            /\ UNCHANGED builder
       ELSE /\ builder' = [nil |-> FALSE,
                           inputSize |-> inputSize,
                           defaultLearningRate |-> rate,
                           errorMetric |-> IF metric = NilStrategy
                                           THEN GetErrorMetric(errorMetrics, "_default")
                                           ELSE metric,
                           layers |-> InitialSpecs(rev)]
            /\ UNCHANGED panic
    /\ UNCHANGED <<rev, budget, reader, parked, files, seed, activators, errorMetrics, network, call, ret, pre,
                   events, addCalls, calls>>

\* AddLayer(outputSize, activator).
AddLayerPanic(outputSize) ==
    IF outputSize < 1 THEN "output size must be >= 1" ELSE ""

AddLayer(outputSize, activator) ==
    /\ panic = "" /\ ~builder.nil /\ network.nil
    /\ Len(addCalls) < MaxLayers
    /\ addCalls' = Append(addCalls,
                          [outputSize |-> outputSize,
                           activator |-> IF activator = NilStrategy
                                         THEN GetActivator(activators, "_default")
                                         ELSE activator])
    /\ IF AddLayerPanic(outputSize) # ""
       THEN /\ panic' = AddLayerPanic(outputSize)
            /\ UNCHANGED builder
       ELSE /\ builder' = [builder EXCEPT !.layers = Append(@,
                             [outputSize |-> outputSize,
                              activator |-> IF activator = NilStrategy
                                            THEN GetActivator(activators, "_default")
                                            ELSE activator])]
            /\ UNCHANGED panic
    /\ UNCHANGED <<rev, budget, reader, parked, files, seed, activators, errorMetrics, network, call, ret, pre,
                   events, calls>>

\* CanBuild().
CanBuild(b) == Len(b.layers) > 0

\* The loop of Build: newFFLayer for each spec, the input size of each the
\* output size of the one before.
RECURSIVE BuildLayers(_, _, _, _)
BuildLayers(r, specs, inputSize, s) ==
    IF Len(specs) = 0 THEN << >>
    ELSE <<newFFLayer(r, inputSize, Head(specs).outputSize, Head(specs).activator, s)>>
         \o BuildLayers(r, Tail(specs), Head(specs).outputSize,
                        s + Draws(r, inputSize, Head(specs).outputSize))

RECURSIVE TotalDraws(_, _, _)
TotalDraws(r, specs, inputSize) ==
    IF Len(specs) = 0 THEN 0
    ELSE Draws(r, inputSize, Head(specs).outputSize)
         + TotalDraws(r, Tail(specs), Head(specs).outputSize)

\* Build: the training matrices of layer k. ffnn/factory.go makes the three
\* slices and leaves every entry nil.
TrainingMatrix(r, outputSize) ==
    IF r = RevPrealloc THEN NilDense ELSE NewDense(outputSize, 1)

BuildNetwork(r, b, s) ==
    [nil |-> FALSE,
     layers |-> BuildLayers(r, b.layers, b.inputSize, s),
     defaultLearningRate |-> b.defaultLearningRate,
     c |-> b.errorMetric,
     rDaDz |-> [k \in 1..Len(b.layers) |-> TrainingMatrix(r, b.layers[k].outputSize)],
     rDcDa |-> [k \in 1..Len(b.layers) |-> TrainingMatrix(r, b.layers[k].outputSize)],
     delta |-> [k \in 1..Len(b.layers) |-> TrainingMatrix(r, b.layers[k].outputSize)]]

\* Whether Build makes a matrix with no rows: mat.NewDense(0, c, ...).
ZeroLength(b) == \E k \in 1..Len(b.layers) : b.layers[k].outputSize = 0

\* Build(). gonum's NewDense accepts a zero dimension in the releases of the
\* time of this code and panics with ErrZeroLength in later ones: either.
Build ==
    /\ panic = "" /\ ~builder.nil /\ network.nil
    /\ \E strict \in (IF ZeroLength(builder) THEN BOOLEAN ELSE {FALSE}) :
         IF ~CanBuild(builder)
         THEN /\ panic' = "this builder must specify at least one layer"
              /\ UNCHANGED <<network, seed>>
         ELSE IF strict
         THEN /\ panic' = "mat: zero length in matrix dimension"
              /\ UNCHANGED <<network, seed>>
         ELSE /\ network' = BuildNetwork(rev, builder, seed)
              /\ seed' = seed + TotalDraws(rev, builder.layers, builder.inputSize)
              /\ UNCHANGED panic
    /\ UNCHANGED <<rev, budget, reader, parked, files, activators, errorMetrics, builder, call, ret, pre, events,
                   addCalls, calls>>

\* ------------------------------------------------------------- network
LayersCount(net) == Len(net.layers)

\* The panic of network.layers[index] (index as in Go, from 0), or "".
IndexPanic(net, index) ==
    IF index < 0 \/ index >= LayersCount(net) THEN "index out of range" ELSE ""

\* An opDeltaInLastLayer whose activator takes the derivative in place, in
\* the layer's weighted sum.
opDeltaInLastLayerInPlace(net, t) ==
    LET last  == LayersCount(net)
        layer == net.layers[last]
        p1 == GradientPanic(net.c, layer.a, t, net.rDcDa[last])
        n1 == [net EXCEPT !.rDcDa[last] = Gradient(net.c, layer.a, t)]
        p2 == ActDerivativePanic(layer.f, layer.z, net.rDaDz[last])
        n2 == [n1 EXCEPT !.rDaDz[last] = ActDerivative(layer.f, layer.z),
                         !.layers[last].z = ActDerivative(layer.f, layer.z)]
        p3 == ElemPanic(n2.rDcDa[last], n2.rDaDz[last], n2.delta[last])
        n3 == [n2 EXCEPT !.delta[last] = H(n2.rDcDa[last], n2.rDaDz[last])]
    IN  IF p1 # "" THEN [err |-> p1, net |-> net]
        ELSE IF p2 # "" THEN [err |-> p2, net |-> n1]
        ELSE IF p3 # "" THEN [err |-> p3, net |-> n2]
        ELSE [err |-> "", net |-> n3]

\* opDeltaInLastLayer / differentialErrorFromOutputs: the error term of the
\* last layer, delta = Gradient(a, t) (*) Derivative(z). [err, net].
opDeltaInLastLayer(net, t) ==
    LET last  == LayersCount(net)
        layer == net.layers[last]
        p1 == GradientPanic(net.c, layer.a, t, net.rDcDa[last])
        n1 == [net EXCEPT !.rDcDa[last] = Gradient(net.c, layer.a, t)]
        p2 == ActDerivativePanic(layer.f, layer.z, net.rDaDz[last])
        n2 == [n1 EXCEPT !.rDaDz[last] = ActDerivative(layer.f, layer.z)]
        p3 == ElemPanic(n2.rDcDa[last], n2.rDaDz[last], n2.delta[last])
        n3 == [n2 EXCEPT !.delta[last] = H(n2.rDcDa[last], n2.rDaDz[last])]
    IN  IF p1 # "" THEN [err |-> p1, net |-> net]
        ELSE IF p2 # "" THEN [err |-> p2, net |-> n1]
        ELSE IF p3 # "" THEN [err |-> p3, net |-> n2]
        ELSE [err |-> "", net |-> n3]

\* opDeltaInNonLastLayer / differentialErrorsFromFollowingLayer(index):
\* delta[index] = (transpose(w[index+1]) * delta[index+1]) (*) Derivative(z).
opDeltaInNonLastLayer(net, index) ==
    LET k     == index + 1
        layer == net.layers[k]
        p1 == MulPanic(T(net.layers[k + 1].w), net.delta[k + 1], net.rDcDa[k])
        n1 == [net EXCEPT !.rDcDa[k] = Mul(T(net.layers[k + 1].w), net.delta[k + 1])]
        p2 == ActDerivativePanic(layer.f, layer.z, net.rDaDz[k])
        n2 == [n1 EXCEPT !.rDaDz[k] = ActDerivative(layer.f, layer.z)]
        p3 == ElemPanic(n2.rDcDa[k], n2.rDaDz[k], n2.delta[k])
        n3 == [n2 EXCEPT !.delta[k] = H(n2.rDcDa[k], n2.rDaDz[k])]
    IN  IF IndexPanic(net, index) # "" THEN [err |-> IndexPanic(net, index), net |-> net]
        ELSE IF IndexPanic(net, index + 1) # "" THEN [err |-> IndexPanic(net, index + 1), net |-> net]
        ELSE IF p1 # "" THEN [err |-> p1, net |-> net]
        ELSE IF p2 # "" THEN [err |-> p2, net |-> n1]
        ELSE IF p3 # "" THEN [err |-> p3, net |-> n2]
        ELSE [err |-> "", net |-> n3]

\* fixLayer(index, learningRate) with separate w and b:
\* w -= rate * (delta * transpose(i)); b -= rate * delta.
fixLayerSplit(net, index, rate) ==
    LET k     == index + 1
        layer == net.layers[k]
        iT    == T(layer.i)
        d     == net.delta[k]
        p1 == MulPanic(d, iT, NewDense(d.rows, iT.cols))
        p2 == ElemPanic(layer.w, Mul(d, iT), layer.w)
        n2 == [net EXCEPT !.layers[k].w = Sub(layer.w, Scale(rate, Mul(d, iT)))]
        p3 == UnaryPanic(d, NewDense(d.rows, 1))
        p4 == ElemPanic(layer.b, d, layer.b)
        n4 == [n2 EXCEPT !.layers[k].b = Sub(layer.b, Scale(rate, d))]
    IN  IF d.nil \/ iT.nil THEN [err |-> "nil pointer dereference", net |-> net]
        ELSE IF p1 # "" THEN [err |-> p1, net |-> net]
        ELSE IF p2 # "" THEN [err |-> p2, net |-> net]
        ELSE IF p3 # "" THEN [err |-> p3, net |-> n2]
        ELSE IF p4 # "" THEN [err |-> p4, net |-> n2]
        ELSE [err |-> "", net |-> n4]

\* fixLayer(index, learningRate) of the revisions whose weights hold the
\* bias column: weights -= rate * (errors * transpose(inputs)).
fixLayerAugmented(net, index, rate) ==
    LET k     == index + 1
        layer == net.layers[k]
        iT    == T(layer.i)
        d     == net.delta[k]
        p1 == MulPanic(d, iT, NewDense(d.rows, iT.cols))
        p2 == ElemPanic(layer.w, Mul(d, iT), layer.w)
        n2 == [net EXCEPT !.layers[k].w = Sub(layer.w, Scale(rate, Mul(d, iT)))]
    IN  IF d.nil \/ iT.nil THEN [err |-> "nil pointer dereference", net |-> net]
        ELSE IF p1 # "" THEN [err |-> p1, net |-> net]
        ELSE IF p2 # "" THEN [err |-> p2, net |-> net]
        ELSE [err |-> "", net |-> n2]

\* A faulty fixLayer that leaves the bias b of every layer alone.
fixLayerWeightsOnly(r, net, index, rate) == fixLayerAugmented(net, index, rate)

fixLayer(r, net, index, rate) ==
    IF Augmented(r) THEN fixLayerAugmented(net, index, rate)
    ELSE fixLayerSplit(net, index, rate)

\* The backward loop's step: adjust() counts index down, the TrainWithRate
\* of the earlier revisions counts it up.
NextIndex(r, index) == IF r = RevSplit THEN index - 1 ELSE index + 1

\* A faulty TrainWithRate / Test that never computes the cost.
AfterForwardNoCost(op) == IF op = "Forward" THEN "return" ELSE "deltaLast"

\* A faulty adjust() without its backward loop.
LoopOrFixNoLoop(index) == [pc |-> "fix", index |-> 0]

\* Where a call goes after its forward pass and after its cost.
AfterForward(op) == IF op = "Forward" THEN "return" ELSE "cost"

AfterCost(op) == IF op = "Test" THEN "return" ELSE "deltaLast"

\* The loop test of the backward loop: index >= 0, else on to fixLayer(0).
LoopOrFix(index) ==
    IF index >= 0 THEN [pc |-> "backward", index |-> index]
    ELSE [pc |-> "fix", index |-> 0]

\* ------------------------------------------------------------- calls
CanCall == panic = "" /\ ~network.nil /\ call.op = "idle" /\ calls < budget

Begin(op, e, rate) ==
    /\ call' = [op |-> op, pc |-> "forward", index |-> 0,
                input |-> makeInput(e, network.layers[1].inputSize),
                expected |-> makeTarget(e, network.layers[LayersCount(network)].outputSize),
                rate |-> rate, cost |-> 0]
    /\ pre' = network
    /\ events' = << >>
    /\ calls' = calls + 1
    /\ UNCHANGED <<rev, budget, parked, files, seed, activators, errorMetrics, builder, network, ret,
                   panic, addCalls>>

\* network.Forward(input).
Forward(e) == CanCall /\ Begin("Forward", e, 0) /\ UNCHANGED reader

\* network.Test(input, expectedOutput); the earlier revisions have none.
Test(e) == CanCall /\ rev = RevSplit /\ Begin("Test", e, 0) /\ UNCHANGED reader

\* network.TrainWithRate(input, expectedOutput, learningRate).
TrainWithRate(e, rate) == CanCall /\ Begin("TrainWithRate", e, rate) /\ UNCHANGED reader

\* network.Train(input, expectedOutput).
Train(e) ==
    CanCall /\ Begin("TrainWithRate", e, network.defaultLearningRate) /\ UNCHANGED reader

Crash(msg) ==
    /\ panic' = msg
    /\ call' = [call EXCEPT !.pc = "panicked"]

\* One turn of the loop of FFNetwork.Forward: layer.Forward(input);
\* input = layer.a.
ForwardStep ==
    /\ panic = "" /\ call.pc = "forward"
    /\ LET k   == call.index + 1
           in  == IF call.index = 0 THEN call.input ELSE network.layers[call.index].a
           res == LayerForward(rev, network.layers[k], in)
       IN  /\ network' = [network EXCEPT !.layers[k] = res.layer]
           /\ IF res.err # "" THEN Crash(res.err)
              ELSE /\ call' = [call EXCEPT !.index = k,
                                 !.pc = IF k = LayersCount(network)
                                        THEN AfterForward(call.op) ELSE "forward"]
                   /\ UNCHANGED panic
    /\ UNCHANGED <<rev, budget, reader, parked, files, seed, activators, errorMetrics, builder, ret, pre, events,
                   addCalls, calls>>

\* cost = c.Base(output, expectedOutput) of Test and TrainWithRate.
CostStep ==
    /\ panic = "" /\ call.pc = "cost"
    /\ LET output == network.layers[LayersCount(network)].a
       IN  IF CostPanic(network.c, output, call.expected) # ""
           THEN Crash(CostPanic(network.c, output, call.expected))
           ELSE /\ call' = [call EXCEPT !.cost = Cost(network.c, output, call.expected),
                                        !.pc = AfterCost(call.op)]
                /\ UNCHANGED panic
    /\ UNCHANGED <<rev, budget, reader, parked, files, seed, activators, errorMetrics, builder, network, ret, pre,
                   events, addCalls, calls>>

\* adjust(): network.opDeltaInLastLayer(layersCount - 1, expectedOutput).
DeltaLastStep ==
    /\ panic = "" /\ call.pc = "deltaLast"
    /\ LET res  == opDeltaInLastLayer(network, call.expected)
           next == LoopOrFix(LayersCount(network) - 2)
       IN  /\ network' = res.net
           /\ IF res.err # "" THEN Crash(res.err) /\ UNCHANGED events
              ELSE /\ call' = [call EXCEPT !.pc = next.pc, !.index = next.index]
                   /\ events' = Append(events, [kind |-> "delta", layer |-> LayersCount(network) - 1])
                   /\ UNCHANGED panic
    /\ UNCHANGED <<rev, budget, reader, parked, files, seed, activators, errorMetrics, builder, ret, pre,
                   addCalls, calls>>

\* adjust(): one turn of the backward loop.
BackwardStep ==
    /\ panic = "" /\ call.pc = "backward"
    /\ LET res  == opDeltaInNonLastLayer(network, call.index)
           next == LoopOrFix(NextIndex(rev, call.index))
       IN  /\ network' = res.net
           /\ IF res.err # "" THEN Crash(res.err) /\ UNCHANGED events
              ELSE /\ call' = [call EXCEPT !.pc = next.pc, !.index = next.index]
                   /\ events' = Append(events, [kind |-> "delta", layer |-> call.index])
                   /\ UNCHANGED panic
    /\ UNCHANGED <<rev, budget, reader, parked, files, seed, activators, errorMetrics, builder, ret, pre,
                   addCalls, calls>>

\* adjust(): one turn of the loop of fixLayer(index, learningRate).
FixStep ==
    /\ panic = "" /\ call.pc = "fix"
    /\ LET res == fixLayer(rev, network, call.index, call.rate)
       IN  /\ network' = res.net
           /\ IF res.err # "" THEN Crash(res.err) /\ UNCHANGED events
              ELSE /\ call' = [call EXCEPT !.index = call.index + 1,
                                 !.pc = IF call.index + 1 < LayersCount(network)
                                        THEN "fix" ELSE "return"]
                   /\ events' = Append(events, [kind |-> "fix", layer |-> call.index])
                   /\ UNCHANGED panic
    /\ UNCHANGED <<rev, budget, reader, parked, files, seed, activators, errorMetrics, builder, ret, pre,
                   addCalls, calls>>

\* return output[, cost]: output is the last layer's activations matrix.
Return ==
    /\ panic = "" /\ call.pc = "return"
    /\ ret' = [op |-> call.op, output |-> LayersCount(network), cost |-> call.cost]
    /\ call' = [call EXCEPT !.pc = "idle", !.op = "idle"]
    /\ UNCHANGED <<rev, budget, reader, parked, files, seed, activators, errorMetrics, builder, network, panic,
                   pre, events, addCalls, calls>>

\* The operations that return the output of the network.
CallOps == {"Forward", "Test", "TrainWithRate"}

\* A caller that is handed a copy: what the matrix held when the running
\* call began.
ReturnedCopy(net, r) == pre.layers[r.output].a

\* The matrix a call returned, as its holder reads it in net: `return input`
\* after `input = layer.a` hands out the pointer to the last layer's a.
Returned(net, r) == net.layers[r.output].a

\* The records of the data set are read in order, one per call, and again
\* from the first after the last.
NextRecord == (calls % NumExamples) + 1

Next ==
    \/ \E rate \in {0} \cup LearningRates, inputSize \in 0..MaxSize,
          metric \in {NilStrategy, "HalfSquaredError"} : New(rate, inputSize, metric)
    \/ \E outputSize \in 0..MaxSize, activator \in {NilStrategy, "Sigmoid"} :
          AddLayer(outputSize, activator)
    \/ Build
    \/ Forward(NextRecord)
    \/ Test(NextRecord)
    \/ Train(NextRecord)
    \/ \E rate \in LearningRates : TrainWithRate(NextRecord, rate)
    \/ ForwardStep
    \/ CostStep
    \/ DeltaLastStep
    \/ BackwardStep
    \/ FixStep
    \/ Return

Spec == Init /\ [][Next]_vars

\* ------------------------------------------------------------- storage
\* A file name is a sequence of characters; "net" and "ffnn" stand for runs
\* of letters.
Blank == " "

\* strings.Trim(filename, " \r\n\t") == "".
IsBlank(filename) == \A k \in 1..Len(filename) : filename[k] = Blank

\* strings.HasSuffix(s, suffix).
HasSuffix(s, suffix) ==
    /\ Len(s) >= Len(suffix)
    /\ SubSeq(s, Len(s) - Len(suffix) + 1, Len(s)) = suffix

\* withExtension(filename, extension).
withExtension(filename, extension) ==
    IF IsBlank(filename) THEN << >>
    ELSE IF ~HasSuffix(filename, <<".">> \o extension) THEN filename \o <<".">> \o extension
    ELSE filename

\* The extension Load passes to withExtension, and the one Save passes:
\* Save of ffnn/factory.go passes ".ffnn".
LoadExtension == <<"ffnn">>

SaveExtension(r) == IF r = RevPrealloc THEN <<".", "ffnn">> ELSE <<"ffnn">>

\* The file names handed to Save and Load: empty, blank, cmd.Filename, and
\* the same with its extension.
FileNames == {<< >>, <<Blank>>, <<"net">>, <<"net", ".", "ffnn">>}

\* A []byte: nil, or the bytes of a matrix: its rows, its columns, and its
\* elements in row-major order.
NoBlob == [empty |-> TRUE, rows |-> 0, cols |-> 0, data |-> << >>]

\* Dense.MarshalBinary().
MarshalBinary(m) ==
    [empty |-> FALSE, rows |-> m.rows, cols |-> m.cols,
     data |-> [k \in 1..(m.rows * m.cols) |->
                 m.at[((k - 1) \div m.cols) + 1][((k - 1) % m.cols) + 1]]]

\* Dense.UnmarshalBinary(data) on receiver recv: its panic (gonum refuses a
\* receiver that already has a shape), its error, the matrix read.
UnmarshalPanic(recv) ==
    IF recv.nil THEN "nil pointer dereference"
    ELSE IF recv.cols # 0 THEN "mat: unmarshal into non-zero matrix"
    ELSE ""

UnmarshalError(data) ==
    IF data.empty \/ Len(data.data) # data.rows * data.cols THEN "mat: data too short" ELSE ""

UnmarshalBinary(data) ==
    [nil |-> FALSE, rows |-> data.rows, cols |-> data.cols,
     at |-> [i \in 1..data.rows |-> [j \in 1..data.cols |->
              data.data[(i - 1) * data.cols + j]]]]

\* Strategy.Name().
StrategyName(s) ==
    IF s = "Shadow" THEN "_default"
    ELSE IF s = "Impostor" THEN "Sigmoid"
    ELSE s

\* The envelope with the descriptors in backward order.
SerializeReversed(r, net) ==
    [C |-> StrategyName(net.c),
     DefaultLearningRate |-> net.defaultLearningRate,
     InputSize |-> net.layers[1].inputSize,
     Layers |-> [k \in 1..Len(net.layers) |->
                   [F |-> StrategyName(net.layers[Len(net.layers) + 1 - k].f),
                    OutputSize |-> net.layers[Len(net.layers) + 1 - k].outputSize,
                    W |-> MarshalBinary(net.layers[Len(net.layers) + 1 - k].w),
                    B |-> IF Augmented(r) THEN NoBlob
                          ELSE MarshalBinary(net.layers[Len(net.layers) + 1 - k].b)]]]

\* The serializedFFNetwork Save fills from the network.
Serialize(r, net) ==
    [C |-> StrategyName(net.c),
     DefaultLearningRate |-> net.defaultLearningRate,
     InputSize |-> net.layers[1].inputSize,
     Layers |-> [k \in 1..Len(net.layers) |->
                   [F |-> StrategyName(net.layers[k].f),
                    OutputSize |-> net.layers[k].outputSize,
                    W |-> MarshalBinary(net.layers[k].w),
                    B |-> IF Augmented(r) THEN NoBlob ELSE MarshalBinary(net.layers[k].b)]]]

\* The zero value of serializedFFNetwork.
ZeroEnvelope ==
    [C |-> "", DefaultLearningRate |-> 0, InputSize |-> 0, Layers |-> << >>]

\* A JSON object: field name -> value. {} has no field.
EmptyObject == [k \in {} |-> 0]

\* json.Encoder.Encode(&serialized): the exported fields. The structs of
\* ffnn/factory.go have none.
JsonEncode(r, serialized) == IF r = RevPrealloc THEN EmptyObject ELSE serialized

\* json.Decoder.Decode(&serialized): each exported field the object has,
\* the others zero.
JsonDecode(r, object) ==
    IF r = RevPrealloc THEN ZeroEnvelope
    ELSE [C |-> IF "C" \in DOMAIN object THEN object["C"] ELSE "",
          DefaultLearningRate |-> IF "DefaultLearningRate" \in DOMAIN object
                                  THEN object["DefaultLearningRate"] ELSE 0,
          InputSize |-> IF "InputSize" \in DOMAIN object THEN object["InputSize"] ELSE 0,
          Layers |-> IF "Layers" \in DOMAIN object THEN object["Layers"] ELSE << >>]

\* A file: empty (created, nothing written), or holding a JSON object.
EmptyFile == [empty |-> TRUE, object |-> ZeroEnvelope]

FileOf(object) == [empty |-> FALSE, object |-> object]

\* makeFFLayer(inputSize, outputSize, activator, weights).
makeFFLayer(inputSize, outputSize, activator, weights) ==
    [inputSize |-> inputSize, outputSize |-> outputSize,
     w |-> weights,
     b |-> NilDense,
     f |-> activator,
     i |-> BiasedInputs(inputSize),
     z |-> NewDense(outputSize, 1),
     a |-> NewDense(outputSize, 1)]

\* decodeFFLayer of ffnn/layers.go: weights := mat.NewDense(outputSize,
\* inputSize + 1, nil); weights.UnmarshalBinary(data). [panic, err, layer].
decodeFFLayerAugmented(inputSize, outputSize, activator, data) ==
    [panic |-> UnmarshalPanic(NewDense(outputSize, inputSize + 1)),
     err   |-> IF UnmarshalPanic(NewDense(outputSize, inputSize + 1)) # "" THEN ""
               ELSE UnmarshalError(data),
     layer |-> makeFFLayer(inputSize, outputSize, activator,
                           IF UnmarshalError(data) # "" THEN NilDense
                           ELSE UnmarshalBinary(data))]

\* decodeFFLayer with separate w and b: the blobs must unmarshal to
\* outputSize x inputSize and outputSize x 1, or loading fails.
decodeFFLayerSplit(inputSize, outputSize, activator, wData, bData) ==
    [panic |-> "",
     err   |-> IF UnmarshalError(wData) # "" THEN UnmarshalError(wData)
               ELSE IF UnmarshalError(bData) # "" THEN UnmarshalError(bData)
               ELSE IF wData.rows # outputSize \/ wData.cols # inputSize
                       \/ bData.rows # outputSize \/ bData.cols # 1
               THEN "mat: dimension mismatch"
               ELSE "",
     layer |-> [inputSize |-> inputSize, outputSize |-> outputSize,
                w |-> IF UnmarshalError(wData) # "" THEN NilDense ELSE UnmarshalBinary(wData),
                b |-> IF UnmarshalError(bData) # "" THEN NilDense ELSE UnmarshalBinary(bData),
                f |-> activator,
                i |-> NewDense(inputSize, 1),
                z |-> NewDense(outputSize, 1),
                a |-> NewDense(outputSize, 1)]]

\* loadLayer(inputSize, outputSize, activator, ...).
loadLayer(r, inputSize, outputSize, activator, wData, bData) ==
    IF Augmented(r) THEN decodeFFLayerAugmented(inputSize, outputSize, activator, wData)
    ELSE decodeFFLayerSplit(inputSize, outputSize, activator, wData, bData)

\* The checks of the envelope without the one of the learning rate.
EnvelopeErrorNoRate(serialized) ==
    IF serialized.InputSize < 1 THEN "input size must be >= 1"
    ELSE IF Len(serialized.Layers) = 0 THEN "at least one layer must be present"
    ELSE ""

\* Load: the checks of the envelope before its layers are read.
EnvelopeError(serialized) ==
    IF serialized.InputSize < 1 THEN "input size must be >= 1"
    ELSE IF Len(serialized.Layers) = 0 THEN "at least one layer must be present"
    ELSE IF serialized.DefaultLearningRate <= 0
    THEN "learning rate must be positive (and, preferably, small)"
    ELSE ""

\* Load: the loop over serialized.Layers, layers holding those read so far.
\* [panic, err, layers].
RECURSIVE LoadLayers(_, _, _, _, _)
LoadLayers(r, registry, descriptors, inputSize, layers) ==
    IF Len(descriptors) = 0 THEN [panic |-> "", err |-> "", layers |-> layers]
    ELSE IF Head(descriptors).OutputSize < 1
    THEN [panic |-> "", err |-> "output size must be >= 1", layers |-> << >>]
    ELSE LET d   == Head(descriptors)
             res == loadLayer(r, inputSize, d.OutputSize, GetActivator(registry, d.F), d.W, d.B)
         IN  IF res.panic # "" THEN [panic |-> res.panic, err |-> "", layers |-> << >>]
             ELSE IF res.err # "" THEN [panic |-> "", err |-> res.err, layers |-> << >>]
             ELSE LoadLayers(r, registry, Tail(descriptors), d.OutputSize,
                             Append(layers, res.layer))

\* Load, from the decoded envelope on: [panic, err, network].
LoadNetwork(r, acts, metrics, serialized) ==
    LET res == LoadLayers(r, acts, serialized.Layers, serialized.InputSize, << >>)
    IN  IF EnvelopeError(serialized) # ""
        THEN [panic |-> "", err |-> EnvelopeError(serialized), network |-> NilNetwork]
        ELSE IF res.panic # "" \/ res.err # ""
        THEN [panic |-> res.panic, err |-> res.err, network |-> NilNetwork]
        ELSE [panic |-> "", err |-> "",
              network |->
                [nil |-> FALSE,
                 layers |-> res.layers,
                 defaultLearningRate |-> serialized.DefaultLearningRate,
                 c |-> GetErrorMetric(metrics, serialized.C),
                 rDaDz |-> [k \in 1..Len(res.layers) |-> NewDense(res.layers[k].outputSize, 1)],
                 rDcDa |-> [k \in 1..Len(res.layers) |-> NewDense(res.layers[k].outputSize, 1)],
                 delta |-> [k \in 1..Len(res.layers) |-> NewDense(res.layers[k].outputSize, 1)]]]

\* Load, from the file name to the decoded envelope: [err, serialized].
OpenAndDecode(r, fs, filename) ==
    LET name == withExtension(filename, LoadExtension)
    IN  IF name = << >> THEN [err |-> "filename is empty", serialized |-> ZeroEnvelope]
        ELSE IF name \notin DOMAIN fs
        THEN [err |-> "open: no such file or directory", serialized |-> ZeroEnvelope]
        ELSE IF fs[name].empty THEN [err |-> "EOF", serialized |-> ZeroEnvelope]
        ELSE [err |-> "", serialized |-> JsonDecode(r, fs[name].object)]

\* Save: the panic of building the envelope, or "".
SavePanic(net) ==
    IF Len(net.layers) = 0 THEN "index out of range"
    ELSE IF net.c = NilStrategy THEN "nil pointer dereference"
    ELSE IF \E k \in 1..Len(net.layers) : net.layers[k].w.nil \/ net.layers[k].f = NilStrategy
    THEN "nil pointer dereference"
    ELSE ""

\* The file system with file name holding content.
WriteFile(fs, name, content) ==
    [n \in (DOMAIN fs) \cup {name} |-> IF n = name THEN content ELSE fs[n]]

\* Whether the operation before this one was a Save of the same file that
\* returned no error.
AfterSave(r, filename) ==
    r.op = "Save" /\ r.err = "" /\ r.filename = filename

\* Save: what panics before the first encodeFFLayer(layer) returns.
PanicBeforeEncode(net) ==
    IF Len(net.layers) = 0 THEN "index out of range"
    ELSE IF net.c = NilStrategy \/ net.layers[1].w.nil THEN "nil pointer dereference"
    ELSE ""

\* Save(network, filename), encodeErr being the error encodeFFLayer returns
\* for the first layer, "" for none. ret records the operation also when it
\* panics.
SaveWith(filename, encodeErr) ==
    /\ panic = "" /\ call.op = "idle"
    /\ LET name   == withExtension(filename, SaveExtension(rev))
           early  == IF network.nil THEN "network is nil"
                     ELSE IF name = << >> THEN "open: no such file or directory"
                     ELSE ""
           failed == early = "" /\ encodeErr # "" /\ PanicBeforeEncode(network) = ""
       IN  /\ ret' = [op |-> "Save", filename |-> filename,
                      err |-> IF failed THEN encodeErr ELSE early]
           /\ IF early # "" THEN UNCHANGED <<files, panic>>
              ELSE IF failed
              THEN /\ files' = WriteFile(files, name, EmptyFile)
                   /\ UNCHANGED panic
              ELSE IF SavePanic(network) # ""
              THEN /\ files' = WriteFile(files, name, EmptyFile)
                   /\ panic' = SavePanic(network)
              ELSE /\ files' = WriteFile(files, name,
                                         FileOf(JsonEncode(rev, Serialize(rev, network))))
                   /\ UNCHANGED panic
    /\ UNCHANGED <<rev, seed, activators, errorMetrics, builder, network, call, pre,
                   events, addCalls, calls, budget, reader, parked>>

\* Save(network, filename) with every layer encoded.
Save(filename) == SaveWith(filename, "")

\* Save(network, filename) with a layer whose MarshalBinary returns an error.
SaveEncodeFails(filename) == SaveWith(filename, "mat: resulting data slice too big")

\* The kind of envelope a file holds, for the record kept of each Load:
\* whether its header is invalid, whether one of its layers is.
BadHeader(object) ==
    \/ object.InputSize < 1
    \/ Len(object.Layers) = 0
    \/ object.DefaultLearningRate <= 0

BadLayer(r, object) ==
    \E k \in 1..Len(object.Layers) :
      LET d         == object.Layers[k]
          inputSize == IF k = 1 THEN object.InputSize ELSE object.Layers[k - 1].OutputSize
      IN  \/ d.OutputSize < 1
          \/ d.W.empty
          \/ d.W.rows # d.OutputSize
          \/ d.W.cols # (IF Augmented(r) THEN inputSize + 1 ELSE inputSize)
          \/ ~Augmented(r) /\ (d.B.empty \/ d.B.rows # d.OutputSize \/ d.B.cols # 1)

\* The envelopes of files the program did not write: a header with input
\* size and rate valid or not, count layers of MaxSize neurons, the one at
\* position at with a fault.
Faults == {"none", "outputSize", "wRows", "wCols", "noW", "bRows", "noB"}

ForeignLayer(r, inputSize, fault) ==
    LET o  == IF fault = "outputSize" THEN 0 ELSE MaxSize
        wr == IF fault = "wRows" THEN o + 1 ELSE o
        wc == (IF Augmented(r) THEN inputSize + 1 ELSE inputSize)
              + (IF fault = "wCols" THEN 1 ELSE 0)
        br == IF fault = "bRows" THEN o + 1 ELSE o
    IN  [F |-> "Sigmoid",
         OutputSize |-> o,
         W |-> IF fault = "noW" THEN NoBlob ELSE MarshalBinary(Fill(wr, wc, Quot(ONE, 4))),
         B |-> IF Augmented(r) \/ fault = "noB" THEN NoBlob
               ELSE MarshalBinary(Fill(br, 1, Quot(ONE, 8)))]

ForeignObject(r, inputSize, rate, count, at, fault) ==
    [C |-> "HalfSquaredError",
     DefaultLearningRate |-> rate,
     InputSize |-> inputSize,
     Layers |-> [k \in 1..count |->
                   ForeignLayer(r, IF k = 1 THEN inputSize ELSE MaxSize,
                                IF k = at THEN fault ELSE "none")]]

ForeignObjects(r) ==
    {ForeignObject(r, inputSize, rate, count, 1, fault) :
       inputSize \in {0, MaxSize}, rate \in {0, Quot(ONE, 2)},
       count \in 0..MaxLayers, fault \in {"none", "wRows"}}
      \cup {ForeignObject(r, MaxSize, Quot(ONE, 2), MaxLayers, at, fault) :
               at \in 1..MaxLayers, fault \in Faults}

\* What the directory holds under a name the program has not written:
\* nothing, or one of the foreign envelopes.
Others(r) ==
    {[present |-> FALSE, object |-> ZeroEnvelope]}
      \cup {[present |-> TRUE, object |-> o] : o \in ForeignObjects(r)}

\* Load(filename); other is what the directory holds under the name if the
\* program has not written it. The program goes on with the network loaded.
\* ret records the operation also when it panics.
Load(filename, other) ==
    /\ panic = "" /\ call.op = "idle"
    /\ LET name    == withExtension(filename, LoadExtension)
           foreign == other.present /\ name # << >> /\ name \notin DOMAIN files
           fs      == IF foreign THEN WriteFile(files, name, FileOf(other.object)) ELSE files
           opened  == OpenAndDecode(rev, fs, filename)
           res     == IF opened.err # ""
                      THEN [panic |-> "", err |-> opened.err, network |-> NilNetwork]
                      ELSE LoadNetwork(rev, activators, errorMetrics, opened.serialized)
       IN  /\ other.present => foreign
           /\ ret' = [op |-> "Load", filename |-> filename, err |-> res.err,
                      afterSave |-> AfterSave(ret, filename), foreign |-> foreign,
                      badHeader |-> foreign /\ BadHeader(other.object),
                      badLayer |-> foreign /\ BadLayer(rev, other.object),
                      nilNetwork |-> res.network.nil]
           /\ panic' = res.panic
           /\ network' = IF res.network.nil THEN network ELSE res.network
    /\ pre' = network
    /\ UNCHANGED <<rev, seed, activators, errorMetrics, builder, call, events,
                   addCalls, calls, budget, reader, parked, files>>

\* ------------------------------------------------------------- program
\* cmd.NewMNISTNetwork(): New(0.01, 784, HalfSquaredError{}), AddLayer(200,
\* Sigmoid{}), AddLayer(10, Sigmoid{}), Build(); the sizes scaled to MaxSize
\* and the rate to 1/2.
MNISTLayers ==
    <<[outputSize |-> MaxSize, activator |-> "Sigmoid"],
      [outputSize |-> MaxSize, activator |-> "Sigmoid"]>>

MNISTBuilder(r) ==
    [nil |-> FALSE, inputSize |-> MaxSize, defaultLearningRate |-> Quot(ONE, 2),
     errorMetric |-> "HalfSquaredError", layers |-> InitialSpecs(r) \o MNISTLayers]

\* The program after NewMNISTNetwork(), about to make n calls on the network.
InitMNIST(n) ==
    /\ rev \in Revisions
    /\ activators = [k \in {"_default", "Sigmoid"} |-> "Sigmoid"]
    /\ errorMetrics = [k \in {"_default", "HalfSquaredError"} |-> "HalfSquaredError"]
    /\ builder = MNISTBuilder(rev)
    /\ addCalls = MNISTLayers
    /\ \E s \in 0..(MaxSeed - 1), strict \in BOOLEAN :
         /\ strict => ZeroLength(builder)
         /\ seed = s + TotalDraws(rev, builder.layers, builder.inputSize)
         /\ network = IF strict THEN NilNetwork ELSE BuildNetwork(rev, builder, s)
         /\ panic = IF strict THEN "mat: zero length in matrix dimension" ELSE ""
    /\ call = IdleCall
    /\ ret = NoRet
    /\ pre = NilNetwork
    /\ events = << >>
    /\ calls = 0
    /\ budget = n
    /\ reader = NoReader
    /\ parked = Parked(IdleCall, NilNetwork, << >>)
    /\ files = NoFiles

\* trainNew / trainExisting / testExisting of main: Train calls, Save, Load.
NextStore ==
    \/ Train(NextRecord)
    \/ ForwardStep
    \/ CostStep
    \/ DeltaLastStep
    \/ BackwardStep
    \/ FixStep
    \/ Return
    \/ \E filename \in FileNames : Save(filename)
    \/ \E filename \in FileNames, other \in Others(rev) : Load(filename, other)

SpecStore == InitMNIST(MaxCalls) /\ [][NextStore]_vars

\* ------------------------------------------------------------- registries
\* The strategies a caller registers: with names of their own, "Shadow",
\* whose Name() is "_default", "Impostor", whose Name() is "Sigmoid", and nil.
ActivatorValues == {"Sigmoid", "Tanh", "Relu", "Shadow", "Impostor", NilStrategy}

ErrorMetricValues == {"HalfSquaredError", "CrossEntropy", "Shadow", NilStrategy}

\* The names looked up.
LookupNames ==
    {"_default", "Sigmoid", "HalfSquaredError", "Tanh", "Relu", "CrossEntropy", "Shadow", ""}

\* A registry in which the strategy registered last takes the name.
RegisteredOverwrite(registry, s) ==
    [n \in (DOMAIN registry) \cup {StrategyName(s)} |->
       IF n = StrategyName(s) THEN s ELSE registry[n]]

\* The registry with strategy s added, and whether it was: s.Name() comes
\* first, a name already there is kept.
Registered(registry, s) ==
    IF StrategyName(s) \in DOMAIN registry THEN registry
    ELSE [n \in (DOMAIN registry) \cup {StrategyName(s)} |->
            IF n = StrategyName(s) THEN s ELSE registry[n]]

\* What a Register call that returned true leaves in the history.
Registration(kind, s) == [kind |-> kind, name |-> StrategyName(s), strategy |-> s]

\* RegisterActivator(activator). ret records the call also when it panics.
RegisterActivator(s) ==
    /\ panic = ""
    /\ IF s = NilStrategy
       THEN /\ panic' = "nil pointer dereference"
            /\ ret' = [op |-> "RegisterActivator", name |-> "",
                       strategy |-> NilStrategy, ok |-> FALSE]
            /\ UNCHANGED <<activators, events>>
       ELSE /\ activators' = Registered(activators, s)
            /\ events' = IF StrategyName(s) \in DOMAIN activators THEN events
                         ELSE Append(events, Registration("activator", s))
            /\ ret' = [op |-> "RegisterActivator", name |-> StrategyName(s),
                       strategy |-> s, ok |-> StrategyName(s) \notin DOMAIN activators]
            /\ UNCHANGED panic
    /\ UNCHANGED <<rev, seed, errorMetrics, builder, network, call, pre, addCalls,
                   calls, budget, reader, parked, files>>

\* RegisterErrorMetric(errorMetric).
RegisterErrorMetric(s) ==
    /\ panic = ""
    /\ IF s = NilStrategy
       THEN /\ panic' = "nil pointer dereference"
            /\ ret' = [op |-> "RegisterErrorMetric", name |-> "",
                       strategy |-> NilStrategy, ok |-> FALSE]
            /\ UNCHANGED <<errorMetrics, events>>
       ELSE /\ errorMetrics' = Registered(errorMetrics, s)
            /\ events' = IF StrategyName(s) \in DOMAIN errorMetrics THEN events
                         ELSE Append(events, Registration("errorMetric", s))
            /\ ret' = [op |-> "RegisterErrorMetric", name |-> StrategyName(s),
                       strategy |-> s, ok |-> StrategyName(s) \notin DOMAIN errorMetrics]
            /\ UNCHANGED panic
    /\ UNCHANGED <<rev, seed, activators, builder, network, call, pre, addCalls,
                   calls, budget, reader, parked, files>>

\* A caller's GetActivator(name) / GetErrorMetric(name).
LookupActivator(name) ==
    /\ panic = ""
    /\ ret' = [op |-> "GetActivator", name |-> name,
               strategy |-> GetActivator(activators, name), ok |-> TRUE]
    /\ UNCHANGED <<rev, seed, activators, errorMetrics, builder, network, call, pre,
                   panic, events, addCalls, calls, budget, reader, parked, files>>

LookupErrorMetric(name) ==
    /\ panic = ""
    /\ ret' = [op |-> "GetErrorMetric", name |-> name,
               strategy |-> GetErrorMetric(errorMetrics, name), ok |-> TRUE]
    /\ UNCHANGED <<rev, seed, activators, errorMetrics, builder, network, call, pre,
                   panic, events, addCalls, calls, budget, reader, parked, files>>

NextRegistry ==
    \/ \E s \in ActivatorValues : RegisterActivator(s)
    \/ \E s \in ErrorMetricValues : RegisterErrorMetric(s)
    \/ \E name \in LookupNames : LookupActivator(name)
    \/ \E name \in LookupNames : LookupErrorMetric(name)

SpecRegistry == Init /\ [][NextRegistry]_vars

\* ------------------------------------------------------------- inference
\* testExisting of main: Forward and Test calls, one after the other, on the
\* network of NewMNISTNetwork(), each on any record.
NextCalls ==
    \/ \E e \in 1..NumExamples : Forward(e)
    \/ \E e \in 1..NumExamples : Test(e)
    \/ ForwardStep
    \/ CostStep
    \/ Return

SpecCalls == InitMNIST(MaxCalls + 1) /\ [][NextCalls]_vars

\* ------------------------------------------------------------- two callers
\* The number of goroutines that call Train on the one network.
Racers == 2

\* A scheduler that does not notice the calls it cuts.
SwitchUnnoticed ==
    /\ panic = "" /\ ~network.nil
    /\ call' = parked.call
    /\ pre' = parked.pre
    /\ events' = parked.events
    /\ parked' = [Parked(call, pre, events) EXCEPT !.raced = parked.raced]
    /\ UNCHANGED <<rev, seed, activators, errorMetrics, builder, network, ret, panic,
                   addCalls, calls, budget, reader, files>>

\* The scheduler takes the running goroutine off and puts the other one on,
\* between two per-layer steps of a call or between two calls: each keeps
\* its own input, expected output, rate, loop index and cost; the network,
\* with the scratch of its layers and its training matrices, is the one
\* both work on.
Switch ==
    /\ panic = "" /\ ~network.nil
    /\ call' = parked.call
    /\ pre' = parked.pre
    /\ events' = parked.events
    /\ parked' = [Parked(call, pre, events) EXCEPT
                    !.raced = parked.raced \/ call.op # "idle"]
    /\ UNCHANGED <<rev, seed, activators, errorMetrics, builder, network, ret, panic,
                   addCalls, calls, budget, reader, files>>

NextRace ==
    \/ Train(NextRecord)
    \/ ForwardStep
    \/ CostStep
    \/ DeltaLastStep
    \/ BackwardStep
    \/ FixStep
    \/ Return
    \/ Switch

SpecRace == InitMNIST(Racers) /\ [][NextRace]_vars

\* ------------------------------------------------------------- any input
\* A call whose input vector has n rows, n being the input size of the
\* first layer or not.
BeginShaped(op, e, n, rate) ==
    /\ call' = [op |-> op, pc |-> "forward", index |-> 0,
                input |-> makeInput(e, n),
                expected |-> makeTarget(e, network.layers[LayersCount(network)].outputSize),
                rate |-> rate, cost |-> 0]
    /\ pre' = network
    /\ events' = << >>
    /\ calls' = calls + 1
    /\ UNCHANGED <<rev, budget, reader, parked, files, seed, activators, errorMetrics, builder,
                   network, ret, panic, addCalls>>

ForwardShaped(e, n) == CanCall /\ BeginShaped("Forward", e, n, 0)

TestShaped(e, n) == CanCall /\ rev = RevSplit /\ BeginShaped("Test", e, n, 0)

TrainShaped(e, n) ==
    CanCall /\ BeginShaped("TrainWithRate", e, n, network.defaultLearningRate)

NextShape ==
    \/ \E n \in 0..(MaxSize + 1) : ForwardShaped(NextRecord, n)
    \/ \E n \in 0..(MaxSize + 1) : TestShaped(NextRecord, n)
    \/ \E n \in 0..(MaxSize + 1) : TrainShaped(NextRecord, n)
    \/ ForwardStep
    \/ CostStep
    \/ DeltaLastStep
    \/ BackwardStep
    \/ FixStep
    \/ Return

SpecShape == InitMNIST(MaxCalls + 1) /\ [][NextShape]_vars

\* ------------------------------------------------------------- failing saves
\* The program of SpecStore, with Save calls whose encoding fails among the
\* others.
NextStoreFaults ==
    \/ Train(NextRecord)
    \/ ForwardStep
    \/ CostStep
    \/ DeltaLastStep
    \/ BackwardStep
    \/ FixStep
    \/ Return
    \/ \E filename \in FileNames : Save(filename)
    \/ \E filename \in FileNames : SaveEncodeFails(filename)

SpecStoreFaults == InitMNIST(MaxCalls) /\ [][NextStoreFaults]_vars

\* ------------------------------------------------------------- training file
\* The training file holds a header and NumExamples records: record 0 is the
\* header. reader.pos is the number of records csvReader has returned in the
\* running pass, reader.trained the records the pass gave to network.Train,
\* reader.opens the os.Open calls made, reader.faults the passes that met a
\* file that would not open or a record that would not parse.
TrainingRecords == NumExamples + 1

\* The passes the loop makes: `epoch < epochs`, and `epochs < 5` in the
\* revision without the parameter.
Passes(r, epochs) == IF r = RevSplit THEN epochs ELSE OldEpochs

\* `first := true`: the revision without the flag trains on every record.
SkipsHeader(r) == r = RevSplit

\* for epoch := 0; epoch < epochs; epoch++
EpochLoop(epoch, epochs) == epoch < epochs

\* TrainMNISTNetwork(network, epochs).
TrainMNISTNetwork(epochs) ==
    /\ panic = "" /\ call.op = "idle" /\ reader.pc = "idle"
    /\ epochs = Passes(rev, epochs)
    /\ reader' = [NoReader EXCEPT !.pc = "epoch", !.epochs = epochs]
    /\ UNCHANGED <<rev, seed, activators, errorMetrics, builder, network, call, ret, panic,
                   pre, events, addCalls, calls, budget, parked, files>>

\* os.Open(TrainingFile) at the head of a pass; without the file the pass is
\* over. The loop left, the function returns.
OpenPass(ok) ==
    /\ panic = "" /\ reader.pc = "epoch"
    /\ ~ok => reader.faults < MaxFaults
    /\ reader' =
         IF ~EpochLoop(reader.epoch, reader.epochs)
         THEN [reader EXCEPT !.pc = "done", !.err = ""]
         ELSE IF ok
         THEN [reader EXCEPT !.pc = "read", !.first = SkipsHeader(rev), !.pos = 0,
                             !.err = "", !.trained = << >>, !.opens = @ + 1]
         ELSE [reader EXCEPT !.epoch = @ + 1, !.err = "open", !.trained = << >>,
                             !.opens = @ + 1, !.faults = @ + 1]
    /\ UNCHANGED <<rev, seed, activators, errorMetrics, builder, network, call, ret, panic,
                   pre, events, addCalls, calls, budget, parked, files>>

\* One turn of the inner loop: csvReader.Read(), break on an error; continue
\* on the first record; network.Train(makePair(record)) on the others.
ReadRecord(ok) ==
    /\ panic = "" /\ reader.pc = "read" /\ call.op = "idle"
    /\ ~ok => reader.faults < MaxFaults /\ reader.pos < TrainingRecords
    /\ IF reader.pos >= TrainingRecords \/ ~ok
       THEN /\ reader' = [reader EXCEPT !.pc = "epoch", !.epoch = @ + 1,
                                        !.err = IF ok THEN "EOF" ELSE "parse error",
                                        !.faults = IF ok THEN @ ELSE @ + 1]
            /\ UNCHANGED <<call, pre, events, calls>>
       ELSE IF reader.first
       THEN /\ reader' = [reader EXCEPT !.first = FALSE, !.pos = @ + 1, !.err = ""]
            /\ UNCHANGED <<call, pre, events, calls>>
       ELSE /\ CanCall
            /\ Begin("TrainWithRate", reader.pos, network.defaultLearningRate)
            /\ reader' = [reader EXCEPT !.pos = @ + 1, !.err = "",
                                        !.trained = Append(@, reader.pos)]
    /\ UNCHANGED <<rev, seed, activators, errorMetrics, builder, network, ret, panic,
                   addCalls, budget, parked, files>>

\* trainNew of main: TrainMNISTNetwork on the network of NewMNISTNetwork().
NextTrainer ==
    \/ \E epochs \in (0..MaxEpochs) \cup {OldEpochs} : TrainMNISTNetwork(epochs)
    \/ \E ok \in BOOLEAN : OpenPass(ok)
    \/ \E ok \in BOOLEAN : ReadRecord(ok)
    \/ ForwardStep
    \/ CostStep
    \/ DeltaLastStep
    \/ BackwardStep
    \/ FixStep
    \/ Return

SpecTrainer == InitMNIST((MaxEpochs + OldEpochs) * TrainingRecords) /\ [][NextTrainer]_vars

\* ------------------------------------------------------------- train, then test
\* TrainMNISTNetwork, and Forward and Test calls on the trained network.
NextTrainTest ==
    \/ \E epochs \in (0..MaxEpochs) \cup {OldEpochs} : TrainMNISTNetwork(epochs)
    \/ \E ok \in BOOLEAN : OpenPass(ok)
    \/ \E ok \in BOOLEAN : ReadRecord(ok)
    \/ reader.pc = "done" /\ Forward(NextRecord)
    \/ reader.pc = "done" /\ Test(NextRecord)
    \/ ForwardStep
    \/ CostStep
    \/ DeltaLastStep
    \/ BackwardStep
    \/ FixStep
    \/ Return

SpecTrainTest ==
    InitMNIST((MaxEpochs + OldEpochs) * TrainingRecords) /\ [][NextTrainTest]_vars

\* ------------------------------------------------------------- properties
N == LayersCount(network)

\* The parameters of a network: every layer's weights and bias.
Params(net) ==
    [k \in 1..Len(net.layers) |-> [w |-> net.layers[k].w, b |-> net.layers[k].b]]

\* The call that runs, or the one that ran last.
LastOp == IF call.op = "idle" THEN ret.op ELSE call.op

DeltaEvents == SelectSeq(events, LAMBDA e : e.kind = "delta")

DeltaOrder == [i \in 1..Len(DeltaEvents) |-> DeltaEvents[i].layer]

DeltaDone(l) == \E i \in 1..Len(events) : events[i] = [kind |-> "delta", layer |-> l]

FixCount(l) ==
    Cardinality({i \in 1..Len(events) : events[i] = [kind |-> "fix", layer |-> l]})

\* N-1, N-2, ..., 0.
Descending(n) == [i \in 1..n |-> n - i]

\* A network as Build is to make it: every layer with sizes >= 1, an
\* activator, and its three training matrices.
Sound(net) ==
    /\ ~net.nil /\ Len(net.layers) >= 1 /\ net.c # NilStrategy
    /\ \A k \in 1..Len(net.layers) :
         /\ net.layers[k].inputSize >= 1 /\ net.layers[k].outputSize >= 1
         /\ net.layers[k].f # NilStrategy
         /\ ~net.rDcDa[k].nil /\ ~net.rDaDz[k].nil /\ ~net.delta[k].nil

\* The layers after a forward pass of input in through them.
RECURSIVE RefForward(_, _, _)
RefForward(r, layers, in) ==
    IF Len(layers) = 0 THEN << >>
    ELSE <<LayerForward(r, Head(layers), in).layer>>
         \o RefForward(r, Tail(layers), LayerForward(r, Head(layers), in).layer.a)

\* C1: in a TrainWithRate call no layer's weights or bias changes before
\* the error term of every layer 0..N-1 has been computed.
C1_UpdatesAfterAllErrorTerms ==
    [][(~network.nil /\ Params(network') # Params(network))
         => \A l \in 0..(N - 1) : DeltaDone(l)]_vars

\* Reached with C1: a two-layer network, one layer already fixed, the other
\* still to fix.
C1_Witness ==
    /\ call.op = "TrainWithRate" /\ call.pc = "fix" /\ N = 2
    /\ Params(network) # Params(pre)
    /\ DeltaOrder = <<1, 0>>

\* C2: once the output layer's error term is computed, the backward loop
\* computes the error terms of layers N-2, ..., 0 in that order, each once,
\* and indexes no layer outside 0..N-1.
C2_BackwardOrder ==
    (call.op = "TrainWithRate" /\ call.pc \in {"fix", "return", "panicked"}
       /\ Len(events) > 0)
      => DeltaOrder = Descending(N)

\* C3: TrainWithRate on a sound network of N >= 1 layers, with input and
\* target of the network's sizes, does not panic.
C3_TrainTerminates ==
    (call.op = "TrainWithRate" /\ Sound(pre)) => call.pc # "panicked"

\* C4: when TrainWithRate returns, every layer was fixed exactly once, its
\* weights are w - rate * (delta * transpose(i)) and its bias b - rate * delta,
\* with i the input the forward pass cached and delta the error term of the
\* backward pass over the weights of before the call.
C4_UpdateRule ==
    (call.op = "TrainWithRate" /\ call.pc = "return") =>
      LET ref == RefForward(rev, pre.layers, call.input)
      IN  \A k \in 1..N :
            LET layer == network.layers[k]
                in    == CachedInput(rev, layer)
                d     == network.delta[k]
            IN  /\ FixCount(k - 1) = 1
                /\ in = (IF k = 1 THEN call.input ELSE ref[k - 1].a)
                /\ layer.z = ref[k].z
                /\ d = H(IF k = N THEN Gradient(network.c, ref[k].a, call.expected)
                         ELSE Mul(T(Weights(rev, pre.layers[k + 1])), network.delta[k + 1]),
                         ActDerivative(layer.f, ref[k].z))
                /\ Weights(rev, layer)
                     = Sub(Weights(rev, pre.layers[k]), Scale(call.rate, Mul(d, T(in))))
                /\ Bias(rev, layer)
                     = Sub(Bias(rev, pre.layers[k]), Scale(call.rate, d))

\* Reached with C4: a returned TrainWithRate on two layers that changed the
\* weights and the bias of both.
C4_Witness ==
    /\ call.op = "TrainWithRate" /\ call.pc = "return" /\ N = 2
    /\ \A k \in 1..2 :
         /\ Weights(rev, network.layers[k]) # Weights(rev, pre.layers[k])
         /\ Bias(rev, network.layers[k]) # Bias(rev, pre.layers[k])

\* C5: a TrainWithRate step with a positive rate moves the bias of output
\* neuron j toward the target: never down when expected[j] > actual[j],
\* never up when expected[j] < actual[j].
C5_DescentDirection ==
    (call.op = "TrainWithRate" /\ call.pc = "return" /\ call.rate > 0) =>
      \A j \in 1..network.layers[N].outputSize :
        LET t  == call.expected.at[j][1]
            a  == network.layers[N].a.at[j][1]
            b0 == Bias(rev, pre.layers[N]).at[j][1]
            b1 == Bias(rev, network.layers[N]).at[j][1]
        IN  /\ (t > a => b1 >= b0)
            /\ (t < a => b1 <= b0)

\* C6: during and after Forward and Test every layer's weights and bias,
\* the default learning rate and the loss function are those of before.
C6_ForwardTestFrame ==
    (~network.nil /\ LastOp \in {"Forward", "Test"}) =>
      /\ Params(network) = Params(pre)
      /\ network.defaultLearningRate = pre.defaultLearningRate
      /\ network.c = pre.c

\* Reached with C6: a returned Test on two layers that rewrote the scratch.
C6_Witness ==
    /\ call.op = "idle" /\ ret.op = "Test" /\ N = 2
    /\ network # pre
    /\ ret.cost > 0

\* C7: TrainWithRate returns the output and the cost of a forward pass with
\* the weights of before the call, and so does Test.
C7_TrainReturnsTest ==
    (call.op = "idle" /\ ret.op \in {"TrainWithRate", "Test"}) =>
      LET ref == RefForward(rev, pre.layers, call.input)
      IN  /\ network.layers[ret.output].a = ref[Len(ref)].a
          /\ ret.cost = Cost(pre.c, ref[Len(ref)].a, call.expected)

\* Reached with C7: a returned TrainWithRate that changed the parameters and
\* whose output a forward pass with the new ones would not give.
C7_Witness ==
    /\ call.op = "idle" /\ ret.op = "TrainWithRate" /\ ret.cost > 0
    /\ Params(network) # Params(pre)
    /\ LET now == RefForward(rev, network.layers, call.input)
       IN  now[Len(now)].z # network.layers[N].z

\* C8: a builder on which AddLayer was never called cannot build:
\* CanBuild() is false and there is no network.
C8_NoLayersNoBuild ==
    (~builder.nil /\ addCalls = << >>) => (~CanBuild(builder) /\ network.nil)

\* C9: a built network has one layer per AddLayer call, in their order, of
\* the output size and activator given; the input sizes are chained from
\* the declared input size.
C9_LayersAsAdded ==
    ~network.nil =>
      /\ N = Len(addCalls)
      /\ \A j \in 1..N :
           /\ network.layers[j].outputSize = addCalls[j].outputSize
           /\ network.layers[j].f = addCalls[j].activator
           /\ network.layers[j].inputSize
                = (IF j = 1 THEN builder.inputSize ELSE network.layers[j - 1].outputSize)

\* C10: no built network has a layer whose input or output size is < 1.
C10_NoEmptyLayer ==
    ~network.nil =>
      \A k \in 1..N : network.layers[k].inputSize >= 1 /\ network.layers[k].outputSize >= 1

\* The forward pass of the call that runs or ran last is complete.
ForwardDone ==
    /\ ~network.nil
    /\ \/ call.pc \in {"cost", "deltaLast", "backward", "fix", "return"}
       \/ call.op = "idle" /\ ret.op \in {"Forward", "Test", "TrainWithRate"}

\* The vector in with a last row 1.0 under it.
WithOne(in) ==
    [nil |-> FALSE, rows |-> in.rows + 1, cols |-> 1,
     at |-> [i \in 1..(in.rows + 1) |-> IF i <= in.rows THEN in.at[i] ELSE <<ONE>>]]

\* weights * in + bias with the parameters of layer.
WeightedSum(r, layer, in) ==
    IF Augmented(r) THEN Mul(layer.w, WithOne(in)) ELSE Add(Mul(layer.w, in), layer.b)

\* C11: each of the three training matrices of layer i of a network exists
\* and has outputSize[i] rows and 1 column.
C11_ScratchShape ==
    ~network.nil =>
      \A k \in 1..N :
        /\ ~network.delta[k].nil /\ ~network.rDaDz[k].nil /\ ~network.rDcDa[k].nil
        /\ ReuseOk(network.delta[k], network.layers[k].outputSize, 1)
        /\ ReuseOk(network.rDaDz[k], network.layers[k].outputSize, 1)
        /\ ReuseOk(network.rDcDa[k], network.layers[k].outputSize, 1)

Last(op) == ret.op = op /\ call.op = "idle"

\* C13: a Load of a file whose envelope has an input size below 1, no
\* layers or a learning rate that is not positive returns an error and no
\* network, whatever the other fields of the envelope are, and the program's
\* network stays the one of before.
C13_LoadRejectsHeader ==
    (Last("Load") /\ ret.badHeader) =>
      /\ panic = ""
      /\ ret.err # ""
      /\ ret.nilNetwork
      /\ network = pre

C13_Witness ==
    /\ Last("Load") /\ ret.badHeader /\ ~ret.badLayer
    /\ ret.err = "learning rate must be positive (and, preferably, small)"

\* C14: a Load of a file whose header is valid and one of whose layers has an
\* output size below 1, or a weights or bias blob of another shape than
\* outputSize x inputSize, outputSize x 1, returns an error.
C14_LoadRejectsLayer ==
    (Last("Load") /\ ~ret.badHeader /\ ret.badLayer) =>
      /\ panic = ""
      /\ ret.err # ""

\* Every layer of net has its parameters and its scratch, and net its
\* training matrices.
Populated(r, net) ==
    /\ ~net.nil
    /\ Len(net.layers) >= 1
    /\ \A k \in 1..Len(net.layers) :
         /\ ~net.layers[k].w.nil
         /\ Augmented(r) \/ ~net.layers[k].b.nil
         /\ net.layers[k].f # NilStrategy
         /\ ~net.layers[k].i.nil /\ ~net.layers[k].z.nil /\ ~net.layers[k].a.nil
         /\ ~net.delta[k].nil /\ ~net.rDaDz[k].nil /\ ~net.rDcDa[k].nil

\* C15: every Load returns: either a network with every layer and every
\* training matrix in place and no error, or no network and an error.
C15_LoadAllOrNothing ==
    Last("Load") =>
      /\ panic = ""
      /\ \/ ret.err = "" /\ ~ret.nilNetwork /\ Populated(rev, network)
         \/ ret.err # "" /\ ret.nilNetwork /\ network = pre

\* What Save(network, ret.filename) wrote.
Saved == files[withExtension(ret.filename, SaveExtension(rev))]

\* C16: after a Save that returned no error the file holds the name of the
\* network's loss, its learning rate, the input size of its first layer and
\* one descriptor per layer in forward order, each with the layer's
\* activation name, output size and parameters as they are now.
C16_SaveWritesNetwork ==
    (Last("Save") /\ ret.err = "" /\ panic = "") =>
      /\ ~Saved.empty
      /\ Saved.object.C = StrategyName(network.c)
      /\ Saved.object.DefaultLearningRate = network.defaultLearningRate
      /\ Saved.object.InputSize = network.layers[1].inputSize
      /\ Len(Saved.object.Layers) = N
      /\ \A k \in 1..N :
           /\ Saved.object.Layers[k].F = StrategyName(network.layers[k].f)
           /\ Saved.object.Layers[k].OutputSize = network.layers[k].outputSize
           /\ Saved.object.Layers[k].W = MarshalBinary(network.layers[k].w)
           /\ Augmented(rev) \/ Saved.object.Layers[k].B = MarshalBinary(network.layers[k].b)

C16_Witness ==
    /\ Last("Save") /\ ret.err = "" /\ panic = ""
    /\ calls > 0
    /\ N = 2

\* What a round trip keeps of a network: sizes, activations, loss, learning
\* rate and parameters.
Kept(net) ==
    [inputSize |-> net.layers[1].inputSize,
     defaultLearningRate |-> net.defaultLearningRate,
     c |-> StrategyName(net.c),
     layers |-> [k \in 1..Len(net.layers) |->
                   [outputSize |-> net.layers[k].outputSize,
                    f |-> StrategyName(net.layers[k].f),
                    w |-> net.layers[k].w, b |-> net.layers[k].b]]]

\* C17: Save(network, name) of a built network under a name that is not
\* blank returns no error, and the Load(name) after it returns the network
\* with the sizes, activations, loss, learning rate and parameters saved.
C17_RoundTrip ==
    /\ (Last("Save") /\ ~network.nil /\ ~IsBlank(ret.filename)) =>
         panic = "" /\ ret.err = ""
    /\ (Last("Load") /\ ret.afterSave) =>
         /\ panic = ""
         /\ ret.err = ""
         /\ ~ret.nilNetwork
         /\ Kept(network) = Kept(pre)

\* The strategy of the first Register call of the kind that returned true
\* for the name, nil if there was none.
FirstRegistered(kind, name) ==
    LET at == {i \in 1..Len(events) : events[i].kind = kind /\ events[i].name = name}
    IN  IF at = {} THEN NilStrategy
        ELSE events[CHOOSE i \in at : \A j \in at : i <= j].strategy

\* What a lookup of name is to give: the built-in strategy for a built-in
\* name, else the one registered, else the built-in default.
Expected(kind, builtin, name) ==
    IF name \in {"_default", builtin} THEN builtin
    ELSE IF FirstRegistered(kind, name) # NilStrategy THEN FirstRegistered(kind, name)
    ELSE builtin

\* C18: after any Register calls, GetActivator(name) and
\* GetErrorMetric(name) return the strategy registered under the name, the
\* "_default" one (Sigmoid, HalfSquaredError) for a name that is not
\* registered, and never nil.
C18_LookupTotal ==
    /\ ret.op = "GetActivator" =>
         /\ ret.strategy # NilStrategy
         /\ ret.strategy = Expected("activator", "Sigmoid", ret.name)
    /\ ret.op = "GetErrorMetric" =>
         /\ ret.strategy # NilStrategy
         /\ ret.strategy = Expected("errorMetric", "HalfSquaredError", ret.name)

C18_Witness ==
    /\ ret.op = "GetActivator"
    /\ ret.name = "Shadow"
    /\ ret.strategy = "Sigmoid"
    /\ FirstRegistered("activator", "Tanh") = "Tanh"
    /\ FirstRegistered("activator", "_default") = NilStrategy
    /\ "CrossEntropy" \in DOMAIN errorMetrics

\* The output of layers on in as a function of weights, biases, activations
\* and input alone.
RECURSIVE Output(_, _, _)
Output(r, layers, in) ==
    IF Len(layers) = 0 THEN in
    ELSE Output(r, Tail(layers), ActBase(Head(layers).f, WeightedSum(r, Head(layers), in)))

\* C19: the output of a Forward call is the function Output of the
\* network's weights, biases, activations and the input, whatever Forward
\* and Test calls ran before it and whatever they left in the scratch.
C19_ForwardOfParamsAndInput ==
    Last("Forward") =>
      network.layers[ret.output].a = Output(rev, network.layers, call.input)

\* Reached with C19: a returned Forward that followed a call on another
\* input, which had left its own input, sums and activations in the layers.
C19_Witness ==
    /\ Last("Forward") /\ calls = 2 /\ N = 2
    /\ pre.layers[1].i # network.layers[1].i
    /\ pre.layers[1].z # network.layers[1].z
    /\ pre.layers[N].z # NewDense(pre.layers[N].outputSize, 1)

\* The network Build() returned.
Built == BuildNetwork(rev, builder, seed - TotalDraws(rev, builder.layers, builder.inputSize))

RECURSIVE BackwardFrom(_, _)
BackwardFrom(net, index) ==
    IF index < 0 THEN net
    ELSE BackwardFrom(opDeltaInNonLastLayer(net, index).net, index - 1)

RECURSIVE FixFrom(_, _, _, _)
FixFrom(r, net, index, rate) ==
    IF index >= Len(net.layers) THEN net
    ELSE FixFrom(r, fixLayer(r, net, index, rate).net, index + 1, rate)

\* The network after a whole Train call on record e, nothing else running.
Trained(r, net, e) ==
    LET in      == makeInput(e, net.layers[1].inputSize)
        t       == makeTarget(e, net.layers[Len(net.layers)].outputSize)
        forward == [net EXCEPT !.layers = RefForward(r, net.layers, in)]
        last    == opDeltaInLastLayer(forward, t).net
    IN  FixFrom(r, BackwardFrom(last, Len(net.layers) - 2), 0, net.defaultLearningRate)

\* The parameters the two Train calls leave when one runs after the other.
SerialParams ==
    {Params(Trained(rev, Trained(rev, Built, 1), 2)),
     Params(Trained(rev, Trained(rev, Built, 2), 1))}

\* Both goroutines have returned from their Train call.
BothReturned ==
    /\ panic = "" /\ calls = Racers
    /\ call.op = "idle" /\ parked.call.op = "idle"

\* C20: the parameters two Train calls on one network leave are those of a
\* serial order of the two whenever no call was switched out before it
\* returned; with switches between per-layer steps they can be others (the
\* witness): a call then works on input, sums or activations the other call
\* has written into the layers.
C20_SerialUnlessInterleaved ==
    (BothReturned /\ ~parked.raced) => Params(network) \in SerialParams

\* Reached with C20: both calls have returned, and the parameters are those
\* of neither serial order.
C20_Witness ==
    /\ BothReturned
    /\ parked.raced
    /\ Params(network) \notin SerialParams

\* The call that runs or ran last was given an input of another length than
\* the first layer's input size, and its first layer has been asked to
\* forward it.
Mismatched ==
    /\ ~call.input.nil
    /\ call.input.rows # pre.layers[1].inputSize
    /\ call.index >= 1 \/ call.pc # "forward"

\* C21: a Forward, Test or Train call given an input whose length is not the
\* first layer's input size fails, and the network (parameters and scratch)
\* is as it was before the call.
C21_MismatchRejected ==
    Mismatched => (panic # "" /\ network = pre)

\* C22: every layer Build() has just constructed with input and output
\* size of 1 or more has weights of outputSize rows by inputSize columns and
\* a bias of its own of outputSize rows by 1 column.
C22_WeightsAndBiasShape ==
    (~network.nil /\ calls = 0) =>
      \A k \in 1..N :
        (network.layers[k].inputSize >= 1 /\ network.layers[k].outputSize >= 1) =>
          /\ ~network.layers[k].w.nil
          /\ network.layers[k].w.rows = network.layers[k].outputSize
          /\ network.layers[k].w.cols = network.layers[k].inputSize
          /\ ~network.layers[k].b.nil
          /\ network.layers[k].b.rows = network.layers[k].outputSize
          /\ network.layers[k].b.cols = 1

\* The weighted sums and activations of every layer.
SumsAndActivations(net) ==
    [k \in 1..Len(net.layers) |-> [z |-> net.layers[k].z, a |-> net.layers[k].a]]

\* C23: the steps of a call that run the loss's Base and Gradient and the
\* activators' Derivative (the cost and the error terms) leave every layer's
\* weighted sum and activations, and the expected output, as they were:
\* the strategies write their destination only.
C23_StrategiesKeepOperands ==
    [][call.pc \in {"cost", "deltaLast", "backward"} =>
         /\ SumsAndActivations(network') = SumsAndActivations(network)
         /\ call'.expected = call.expected
         /\ call'.input = call.input]_vars

\* Reached with C23: cost, gradient and derivatives of a two-layer network
\* have been computed into the training matrices.
C23_Witness ==
    /\ call.op = "TrainWithRate" /\ call.pc = "fix" /\ call.index = 0 /\ N = 2
    /\ call.cost > 0
    /\ network.rDcDa # pre.rDcDa
    /\ network.rDaDz # pre.rDaDz
    /\ SumsAndActivations(network) # SumsAndActivations(pre)

\* C24: when the backward loop is about to take an interior layer, the
\* product of the transposed weights of the layer after it and that layer's
\* error term has the interior layer's outputSize rows and 1 column, as have
\* the two training matrices it is multiplied into.
C24_PropagatedShape ==
    (panic = "" /\ call.pc = "backward" /\ call.index >= 0 /\ call.index + 2 <= N) =>
      LET k == call.index + 1
      IN  /\ T(network.layers[k + 1].w).cols = network.delta[k + 1].rows
          /\ T(network.layers[k + 1].w).rows = network.layers[k].outputSize
          /\ network.delta[k + 1].cols = 1
          /\ ReuseOk(network.rDcDa[k], network.layers[k].outputSize, 1)
          /\ ReuseOk(network.rDaDz[k], network.layers[k].outputSize, 1)

\* C25: in a TrainWithRate call on a network with the half-squared-error
\* loss, the gradient written for the last layer is actual minus expected,
\* a - y, and the cost is half the sum of its squares.
C25_GradientOfBase ==
    (call.op = "TrainWithRate" /\ panic = "" /\ DeltaDone(N - 1)) =>
      /\ network.rDcDa[N] = Sub(network.layers[N].a, call.expected)
      /\ call.cost = Quot(MatSum(H(network.rDcDa[N], network.rDcDa[N])), 2)

\* Every entry of registry before is in registry after, unchanged.
Kept2(before, after) ==
    \A n \in DOMAIN before : n \in DOMAIN after /\ after[n] = before[n]

\* What a Register call on registry before that leaves ret' and registry
\* after is to do: return true and add the strategy under its name when the
\* name had no entry, return false and change nothing when it had one.
RegisterRule(before, after) ==
    /\ ret'.ok = (ret'.name \notin DOMAIN before)
    /\ ret'.ok => (/\ DOMAIN after = (DOMAIN before) \cup {ret'.name}
                   /\ after[ret'.name] = ret'.strategy)
    /\ ~ret'.ok => after = before

\* C26: a Register call adds the strategy and returns true only when its
\* name has no entry, and else returns false and changes nothing; no step
\* replaces or removes an entry of either registry.
C26_RegisterKeepsEntries ==
    [][/\ Kept2(activators, activators')
       /\ Kept2(errorMetrics, errorMetrics')
       /\ (panic' = "" /\ ret'.op = "RegisterActivator")
            => (RegisterRule(activators, activators') /\ errorMetrics' = errorMetrics)
       /\ (panic' = "" /\ ret'.op = "RegisterErrorMetric")
            => (RegisterRule(errorMetrics, errorMetrics') /\ activators' = activators)
       /\ (panic' = "" /\ ret'.op \in {"GetActivator", "GetErrorMetric"})
            => (activators' = activators /\ errorMetrics' = errorMetrics)]_vars

\* Reached with C26: a Register of a strategy named "_default" has returned
\* false after other strategies were added, the built-in entries in place.
C26_Witness ==
    /\ ret.op = "RegisterActivator" /\ ~ret.ok /\ ret.strategy = "Shadow"
    /\ activators["_default"] = "Sigmoid"
    /\ "Tanh" \in DOMAIN activators /\ activators["Tanh"] = "Tanh"
    /\ "CrossEntropy" \in DOMAIN errorMetrics

\* C27: a RegisterActivator or RegisterErrorMetric call given nil returns
\* false without failing.
C27_RegisterNilReturnsFalse ==
    (ret.op \in {"RegisterActivator", "RegisterErrorMetric"} /\ ret.strategy = NilStrategy) =>
      (panic = "" /\ ~ret.ok)

\* C28: a Save that returns an error leaves every file that was there
\* before it with the contents it had.
C28_FailedSaveKeepsFile ==
    [][(ret'.op = "Save" /\ ret'.err # "") =>
         \A n \in DOMAIN files : n \in DOMAIN files' /\ files'[n] = files[n]]_vars

\* The records 1..n in file order.
InOrder(n) == [i \in 1..n |-> i]

\* What TrainMNISTNetwork has done by the time it reads or opens again.
PassesInOrder ==
    /\ reader.pc = "read" =>
         reader.trained = InOrder(IF reader.pos = 0 THEN 0 ELSE reader.pos - 1)
    /\ reader.err = "open" => reader.trained = << >>
    /\ reader.pc = "done" => reader.opens = reader.epochs

\* What a read error, the end of the file and a file that does not open do.
PassEnds ==
    /\ (reader.pc = "read" /\ reader'.err # "") =>
         /\ reader'.pc = "epoch" /\ reader'.epoch = reader.epoch + 1
         /\ reader'.trained = reader.trained /\ calls' = calls
    /\ reader'.err = "EOF" => reader.pos = TrainingRecords
    /\ (reader.pc = "epoch" /\ reader'.err = "open") =>
         /\ reader'.pc = "epoch" /\ reader'.epoch = reader.epoch + 1 /\ calls' = calls

\* C29: TrainMNISTNetwork(network, epochs) opens the training file `epochs`
\* times; each pass skips the header, trains once on every following record
\* in file order and ends at the first read error or at the end of the
\* file; a pass whose file does not open trains on nothing and the passes
\* after it are still made.
C29_PassesOverFile == []PassesInOrder /\ [][PassEnds]_vars

====
